---- MODULE Spec2Model ----
(***************************************************************************)
(* Conservative Q-Learning trainer (ContinuousCQL) and its ReplayBuffer,   *)
(* src/code/cql.py.                                                        *)
(*                                                                         *)
(* Tensors are modelled by scalars: a transition is one row of five        *)
(* integers, a network's parameter set is one integer, and an optimizer    *)
(* step moves a parameter by one unit against the sign of its gradient.    *)
(***************************************************************************)
EXTENDS Integers, Sequences, FiniteSets, TLC

\* ------------------------------------------------------------------ bounds
MaxCapacity == 2     \* largest buffer_size explored
MaxBatch == 2        \* largest batch_size explored
MaxCalls == 3        \* training calls explored per run
MaxBcSteps == 1      \* largest bc_steps explored
MaxPeriod == 2       \* largest target_update_period explored
MaxActions == 2      \* largest cql_n_actions explored
MaxSyncs == 2        \* update_target_network calls explored on their own

VARIABLES
  \* ReplayBuffer
  _buffer_size, _pointer, _size,
  _states, _actions, _rewards, _next_states, _dones,
  ret,         \* the last ReplayBuffer call: its arguments and its outcome
  loaded,      \* history: the dataset of the load that succeeded, <<>> before
  \* ContinuousCQL
  trainer,       \* the trainer object: hyper-parameters, networks, scalars, counter
  peer,          \* the server_agent passed to train(): its actor and whether a
                 \* backward pass of this trainer has reached its gradients
  ckpt,          \* the checkpoint file: <<>> or <<state dict>>
  last,          \* the last trainer call: what it computed and did
  hist,          \* history: training calls and syncs so far, whether a call was
                 \* in the Q regime (ever, and since the counter was last
                 \* restored), whether load_state_dict restored the counter
  twin           \* a second trainer, constructed like the first, that is run
                 \* with train_ori beside it: the object and its last call

bufvars == <<_buffer_size, _pointer, _size,
             _states, _actions, _rewards, _next_states, _dones>>
allbufvars == <<_buffer_size, _pointer, _size,
                _states, _actions, _rewards, _next_states, _dones, ret, loaded>>
trvars == <<trainer, peer, ckpt, last, hist, twin>>
vars == <<_buffer_size, _pointer, _size,
          _states, _actions, _rewards, _next_states, _dones, ret, loaded,
          trainer, peer, ckpt, last, hist, twin>>

\* ------------------------------------------------------------ ReplayBuffer

\* min() of Python
Min(a, b) == IF a <= b THEN a ELSE b

\* The rows a d4rl dataset can hold: observation, action, reward,
\* next observation, terminal flag (a boolean in the dataset).
Rows ==
  { [observations |-> 1, actions |-> 1,  rewards |-> 1,  next_observations |-> 2, terminals |-> FALSE],
    [observations |-> 2, actions |-> -1, rewards |-> -1, next_observations |-> 1, terminals |-> TRUE],
    [observations |-> 1, actions |-> -1, rewards |-> 2,  next_observations |-> 1, terminals |-> FALSE] }

\* Datasets of 0 .. cap+1 rows (one more than fits).
RECURSIVE SeqsUpTo(_, _)
SeqsUpTo(S, n) ==
  IF n = 0 THEN { <<>> }
  ELSE LET shorter == SeqsUpTo(S, n - 1)
       IN shorter \cup { Append(q, x) : q \in { p \in shorter : Len(p) = n - 1 }, x \in S }

Datasets(cap) == SeqsUpTo(Rows, cap + 1)

\* torch.zeros((buffer_size, dim))
Zeros(n) == [i \in 1..n |-> 0]

\* _to_tensor: torch.tensor(data, dtype=float32); the integers used here are
\* exact in float32, a boolean becomes 0.0 or 1.0.
_to_tensor(col) == col
_to_tensor_bool(col) == [i \in 1..Len(col) |-> IF col[i] THEN 1 ELSE 0]

\* column `key` of a dataset
Column(data, key) == [i \in 1..Len(data) |-> data[i][key]]

\* buf[:n] = col   (slice assignment; slot k of Python is index k+1 here)
SliceAssign(buf, n, col) == [i \in 1..Len(buf) |-> IF i <= n THEN col[i] ELSE buf[i]]

\* The record kept of a ReplayBuffer call.
Ret(op, outcome, data, batch_size, indices, batch) ==
  [op |-> op, outcome |-> outcome, data |-> data, batch_size |-> batch_size,
   indices |-> indices, batch |-> batch]

NoRet == Ret("none", "none", <<>>, 0, <<>>, <<>>)

BufferInit ==
  /\ _buffer_size \in 1..MaxCapacity
  /\ _pointer = 0
  /\ _size = 0
  /\ _states = Zeros(_buffer_size)
  /\ _actions = Zeros(_buffer_size)
  /\ _rewards = Zeros(_buffer_size)
  /\ _next_states = Zeros(_buffer_size)
  /\ _dones = Zeros(_buffer_size)
  /\ ret = NoRet
  /\ loaded = <<>>

\* load_check without the test of a buffer that already holds data
load_check_capacity_only(size, cap, n_transitions) ==
  IF n_transitions > cap THEN "ValueError" ELSE "ok"

\* load_check without the test of the capacity
load_check_no_capacity(size, cap, n_transitions) ==
  IF size # 0 THEN "ValueError" ELSE "ok"

\* The guard of load_d4rl_dataset: the error it raises, or "ok".
load_check(size, cap, n_transitions) ==
  IF size # 0 THEN "ValueError"
  ELSE IF n_transitions > cap THEN "ValueError"
  ELSE "ok"

\* new_size that forgets to count the loaded rows
new_size_stale(size, n_transitions) == size

\* self._size += n_transitions
new_size(size, n_transitions) == size + n_transitions

load_d4rl_dataset(data) ==
  LET n_transitions == Len(data)
      outcome == load_check(_size, _buffer_size, n_transitions)
  IN IF outcome # "ok"
     THEN /\ ret' = Ret("load", outcome, data, 0, <<>>, <<>>)
          /\ UNCHANGED <<bufvars, loaded>>
     ELSE /\ _states' = SliceAssign(_states, n_transitions, _to_tensor(Column(data, "observations")))
          /\ _actions' = SliceAssign(_actions, n_transitions, _to_tensor(Column(data, "actions")))
          /\ _rewards' = SliceAssign(_rewards, n_transitions, _to_tensor(Column(data, "rewards")))
          /\ _next_states' = SliceAssign(_next_states, n_transitions, _to_tensor(Column(data, "next_observations")))
          /\ _dones' = SliceAssign(_dones, n_transitions, _to_tensor_bool(Column(data, "terminals")))
          /\ _size' = new_size(_size, n_transitions)
          /\ _pointer' = Min(_size', n_transitions)
          /\ ret' = Ret("load", "ok", data, 0, <<>>, <<>>)
          /\ loaded' = data
          /\ UNCHANGED _buffer_size

Load ==
  /\ \E data \in Datasets(_buffer_size) : load_d4rl_dataset(data)
  /\ UNCHANGED trvars

\* np.random.randint(0, high, size=batch_size): the index vectors it can
\* return; it raises ValueError when high <= 0.
randint(high, batch_size) == [1..batch_size -> 0..(high - 1)]

\* Gather reading one slot further (wrapping at the end of the storage)
Gather_shifted(buf, indices) ==
  [i \in 1..Len(indices) |-> buf[((indices[i] + 1) % Len(buf)) + 1]]

\* fancy indexing buf[indices]
Gather(buf, indices) == [i \in 1..Len(indices) |-> buf[indices[i] + 1]]

\* sample that reads the storage also when nothing was loaded
sample_unguarded(batch_size) ==
  /\ \E indices \in randint(IF Min(_size, _pointer) <= 0 THEN _buffer_size
                             ELSE Min(_size, _pointer), batch_size) :
       ret' = Ret("sample", "ok", <<>>, batch_size, indices,
                  << Gather(_states, indices), Gather(_actions, indices),
                     Gather(_rewards, indices), Gather(_next_states, indices),
                     Gather(_dones, indices) >>)
  /\ UNCHANGED <<bufvars, loaded>>

\* sample that consumes what it returns: the pointer moves down by one
sample_popping(batch_size) ==
  LET high == Min(_size, _pointer)
  IN IF high <= 0
     THEN /\ ret' = Ret("sample", "ValueError", <<>>, batch_size, <<>>, <<>>)
          /\ UNCHANGED <<bufvars, loaded>>
     ELSE /\ \E indices \in randint(high, batch_size) :
               ret' = Ret("sample", "ok", <<>>, batch_size, indices,
                          << Gather(_states, indices), Gather(_actions, indices),
                             Gather(_rewards, indices), Gather(_next_states, indices),
                             Gather(_dones, indices) >>)
          /\ _pointer' = _pointer - 1
          /\ UNCHANGED <<_buffer_size, _size, _states, _actions, _rewards,
                         _next_states, _dones, loaded>>

sample(batch_size) ==
  LET high == Min(_size, _pointer)
  IN /\ IF high <= 0
        THEN ret' = Ret("sample", "ValueError", <<>>, batch_size, <<>>, <<>>)
        ELSE \E indices \in randint(high, batch_size) :
               ret' = Ret("sample", "ok", <<>>, batch_size, indices,
                          << Gather(_states, indices), Gather(_actions, indices),
                             Gather(_rewards, indices), Gather(_next_states, indices),
                             Gather(_dones, indices) >>)
     /\ UNCHANGED <<bufvars, loaded>>

Sample ==
  /\ \E batch_size \in 1..MaxBatch : sample(batch_size)
  /\ UNCHANGED trvars

\* add_transition that returns None without doing anything
add_transition_noop ==
  /\ ret' = Ret("add_transition", "ok", <<>>, 0, <<>>, <<>>)
  /\ UNCHANGED <<bufvars, loaded>>
  /\ UNCHANGED trvars

\* add_transition: raise NotImplementedError
add_transition ==
  /\ ret' = Ret("add_transition", "NotImplementedError", <<>>, 0, <<>>, <<>>)
  /\ UNCHANGED <<bufvars, loaded>>
  /\ UNCHANGED trvars

\* ------------------------------------------------------- fixed-point reals
\* Network parameters, observations and pre-squash actions are integers;
\* network outputs, losses and log-probabilities are in thousandths.

\* v evaluated once and handed to F (a let that computes its value once)
Bind(v, F(_)) == CHOOSE y \in { F(w) : w \in {v} } : TRUE

Sign(x) == IF x > 0 THEN 1 ELSE IF x < 0 THEN -1 ELSE 0

Abs(x) == IF x < 0 THEN -x ELSE x

\* product of two values in thousandths
MulMilli(a, b) == (a * b) \div 1000

\* torch.min of two values
TorchMin(a, b) == IF a <= b THEN a ELSE b

\* exp of an integer, in thousandths
RECURSIVE ExpMilli(_)
ExpMilli(k) ==
  IF k = 0 THEN 1000
  ELSE IF k > 0 THEN (ExpMilli(k - 1) * 2718) \div 1000
  ELSE (ExpMilli(k + 1) * 1000) \div 2718

\* tanh of an integer, in thousandths
Tanh(u) ==
  LET m == Abs(u)
      t == IF m = 0 THEN 0 ELSE IF m = 1 THEN 762 ELSE IF m = 2 THEN 964
           ELSE IF m = 3 THEN 995 ELSE IF m = 4 THEN 999 ELSE 1000
  IN Sign(u) * t

\* atanh of an action in thousandths, clipped into (-1, 1) first as
\* get_log_density does (atanh(1 - 1e-7) is about 8)
Atanh(a) ==
  LET m == Abs(a)
      x == IF m = 0 THEN 0 ELSE IF m <= 762 THEN 1 ELSE IF m <= 964 THEN 2
           ELSE IF m <= 995 THEN 3 ELSE IF m <= 999 THEN 4 ELSE 8
  IN Sign(a) * x

\* TanhTransform.log_abs_det_jacobian at pre-squash x:
\* 2 (log 2 - x - softplus(-2x)) = log(1 - tanh(x)^2)
LogAbsDetJacobian(x) ==
  LET m == Abs(x)
  IN IF m = 0 THEN 0 ELSE IF m = 1 THEN -868 ELSE IF m = 2 THEN -2650
     ELSE IF m = 3 THEN -4619 ELSE 1386 - 2000 * m

\* Normal(mean, std = 1).log_prob(x): -(x - mean)^2 / 2 - log sqrt(2 pi)
NormalLogProb(mean, x) == -500 * (x - mean) * (x - mean) - 919

\* exp(-d / 1000) in thousandths for d >= 0, to a resolution of 0.25
ExpNegMilli(d) ==
  LET k == (d + 125) \div 250
      table == <<1000, 779, 607, 472, 368, 287, 223, 174, 135, 105, 82, 64, 50, 39, 30, 24, 18>>
  IN IF k + 1 <= Len(table) THEN table[k + 1] ELSE 0

\* log(S / 1000) in thousandths for S >= 1000, to a resolution of 0.25
LnMilli(S) ==
  LET k == (S + 125) \div 250
      table == <<0, 223, 405, 560, 693, 811, 916, 1012, 1099, 1179, 1253, 1322, 1386,
                 1447, 1504, 1558, 1609, 1658, 1705, 1749, 1792, 1833, 1872, 1910, 1946>>
  IN IF k - 3 <= Len(table) THEN table[k - 3] ELSE table[Len(table)]

RECURSIVE SeqMax(_)
SeqMax(xs) == IF Len(xs) = 1 THEN xs[1]
              ELSE LET r == SeqMax(Tail(xs)) IN IF xs[1] >= r THEN xs[1] ELSE r

RECURSIVE SumExpNeg(_, _)
SumExpNeg(xs, m) == IF xs = <<>> THEN 0
                    ELSE ExpNegMilli(m - xs[1]) + SumExpNeg(Tail(xs), m)

\* torch.logsumexp(xs / temp) * temp with temp = cql_temp = 1
logsumexp(xs) == LET m == SeqMax(xs) IN m + LnMilli(SumExpNeg(xs, m))

\* --------------------------------------------------------------- networks

\* FullyConnectedQFunction.forward: the value of (observation, action) under
\* the critic with parameter theta (a bias, in thousandths)
Q(theta, observations, actions) == theta + 1000 * observations + actions

\* TanhGaussianPolicy.base_network followed by the log-std scaling: the mean
\* of the pre-squash Gaussian (its standard deviation is 1 throughout)
PolicyMean(theta, observations) == theta + observations

\* ReparameterizedTanhGaussian.forward: rsample() and the log-probability of
\* that sample; eps is the standard-normal draw of rsample
tanh_gaussian(mean, eps) ==
  LET x == mean + eps
  IN [action_sample |-> Tanh(x),
      pre |-> x,
      log_prob |-> NormalLogProb(mean, x) - LogAbsDetJacobian(x)]

\* TanhGaussianPolicy.forward: max_action * action and its log-probability
actor_forward(theta, observations, eps) ==
  LET out == tanh_gaussian(PolicyMean(theta, observations), eps)
  IN [actions |-> 1 * out.action_sample, pre |-> out.pre, log_probs |-> out.log_prob]

\* TanhGaussianPolicy.log_prob(observations, actions): it calls
\* tanh_gaussian(mean, log_std, False), which draws a sample of its own (eps)
\* and returns that sample's log-probability; `actions` only decides whether
\* the observations are repeated
policy_log_prob(theta, observations, actions, eps) ==
  tanh_gaussian(PolicyMean(theta, observations), eps).log_prob

\* TanhGaussianPolicy.get_log_density(observations, action): the closed-form
\* log-density of a given action
get_log_density(theta, observations, action) ==
  LET x == Atanh(action)
  IN NormalLogProb(PolicyMean(theta, observations), x) - LogAbsDetJacobian(x)

\* ----------------------------------------------------------- ContinuousCQL

\* soft_update with the weights of target and source exchanged
soft_update_swapped(target, source, tau) == (tau * target + (1000 - tau) * source) \div 1000

\* soft_update: target <- (1 - tau) target + tau source, tau in thousandths
soft_update(target, source, tau) == ((1000 - tau) * target + tau * source) \div 1000

\* An optimizer step (Adam): the parameter moves one step of size lr against
\* the sign of its gradient; a zero gradient leaves it where it is.
optimizer_step(param, grad, lr) == param - lr * Sign(grad)

\* nn.utils.clip_grad_norm_(max_norm=1): the gradient rescaled to norm 1
\* when its norm is larger
clip_grad_norm(grad) == IF grad > 1000 THEN 1000 ELSE IF grad < -1000 THEN -1000 ELSE grad

\* next_total_it counting a call twice
next_total_it_twice(total_it) == total_it + 2

\* self.total_it += 1
next_total_it(total_it) == total_it + 1

\* in_bc_regime that returns to behavior cloning periodically
in_bc_regime_periodic(total_it, bc_steps) == total_it % (bc_steps + 2) <= bc_steps

\* in_bc_regime with a strict comparison
in_bc_regime_strict(total_it, bc_steps) == total_it < bc_steps

\* the test `self.total_it <= self.bc_steps` of _policy_loss(_ori)
in_bc_regime(total_it, bc_steps) == total_it <= bc_steps

\* sync_due on the counter before its increment
sync_due_pre(total_it, target_update_period) == (total_it - 1) % target_update_period = 0

\* the test `self.total_it % self.target_update_period == 0` of train(_ori)
sync_due(total_it, target_update_period) == total_it % target_update_period = 0

\* ContinuousCQL.__init__: the trainer built from its hyper-parameters.
\* Scalars live in `heap`, log_alpha and log_alpha_prime refer to them; the
\* two scalar optimizers keep the parameter they were built on ("alpha0",
\* "prime0"). The optimizers are represented by their step counts.
NewTrainer(auto, lagrange, bc_steps, period) ==
  [ policy_alpha |-> 600, discount |-> 990, target_entropy |-> -1000,
    alpha_multiplier |-> 1000,
    use_automatic_entropy_tuning |-> auto,
    backup_entropy |-> FALSE,
    soft_target_update_rate |-> 500,
    bc_steps |-> bc_steps,
    target_update_period |-> period,
    cql_n_actions |-> 1,
    cql_importance_sample |-> TRUE,
    cql_lagrange |-> lagrange,
    cql_target_action_gap |-> -1000,
    cql_alpha |-> 5000,
    cql_max_target_backup |-> FALSE,
    total_it |-> 0,
    critic_1 |-> 0, critic_2 |-> 1000,
    target_critic_1 |-> 0, target_critic_2 |-> 1000,
    actor |-> 0,
    log_alpha |-> IF auto THEN "alpha0" ELSE "None",
    log_alpha_prime |-> "prime0",
    heap |-> [r \in {"alpha0", "alpha1", "prime0", "prime1"} |->
                IF r = "prime0" THEN 1 ELSE 0],
    optim |-> [actor |-> 0, critic_1 |-> 0, critic_2 |-> 0, alpha |-> 0, alpha_prime |-> 0] ]

\* _alpha_and_alpha_loss that forms the entropy loss also without tuning
_alpha_and_alpha_loss_untuned_loss(self, log_pi) ==
  IF self.use_automatic_entropy_tuning
  THEN LET e == ExpMilli(self.heap[self.log_alpha])
       IN [alpha_loss |-> -MulMilli(e, log_pi + self.target_entropy),
           alpha |-> MulMilli(e, self.alpha_multiplier),
           grad |-> -MulMilli(e, log_pi + self.target_entropy)]
  ELSE [alpha_loss |-> -(log_pi + self.target_entropy),
        alpha |-> self.alpha_multiplier, grad |-> 0]

\* _alpha_and_alpha_loss
_alpha_and_alpha_loss(self, log_pi) ==
  IF self.use_automatic_entropy_tuning
  THEN LET e == ExpMilli(self.heap[self.log_alpha])
       IN [alpha_loss |-> -MulMilli(e, log_pi + self.target_entropy),
           alpha |-> MulMilli(e, self.alpha_multiplier),
           \* d alpha_loss / d log_alpha
           grad |-> -MulMilli(e, log_pi + self.target_entropy)]
  ELSE [alpha_loss |-> 0, alpha |-> self.alpha_multiplier, grad |-> 0]

\* d log_pi / d actor for the reparameterised sample at pre-squash x:
\* the Gaussian term is constant, the Jacobian term gives 2 tanh(x)
DLogPi(x) == 2 * Tanh(x)

\* _policy_loss_ori.  self.total_it is already incremented when it runs.
\* reads: the networks whose outputs enter the loss.
_policy_loss_ori(self, batch, fwd, alpha, draw) ==
  IF in_bc_regime(self.total_it, self.bc_steps)
  THEN LET mine == tanh_gaussian(PolicyMean(self.actor, batch.observations), draw.eps_bc)
           log_probs == policy_log_prob(self.actor, batch.observations, batch.actions, draw.eps_bc)
       IN [regime |-> "bc", reads |-> {"actor"},
           log_probs |-> log_probs,
           policy_loss |-> MulMilli(alpha, fwd.log_probs) - log_probs,
           grad |-> MulMilli(alpha, DLogPi(fwd.pre)) - DLogPi(mine.pre),
           server_grad |-> FALSE]
  ELSE LET q_new_actions == TorchMin(Q(self.critic_1, batch.observations, fwd.actions),
                                     Q(self.critic_2, batch.observations, fwd.actions))
       IN [regime |-> "q", reads |-> {"actor", "critic_1", "critic_2"},
           log_probs |-> 0,
           policy_loss |-> MulMilli(alpha, fwd.log_probs) - q_new_actions,
           grad |-> MulMilli(alpha, DLogPi(fwd.pre))
                      - (1000 - MulMilli(Tanh(fwd.pre), Tanh(fwd.pre))),
           server_grad |-> FALSE]

\* _policy_loss that leaves behavior cloning one call later than
\* _policy_loss_ori does
_policy_loss_late(self, batch, fwd, alpha, draw, server_agent) ==
  _policy_loss_ori([self EXCEPT !.bc_steps = @ + 1], batch, fwd, alpha, draw)

\* _policy_loss: the peer-aware actor loss.  server_agent.actor(observations)
\* is called with gradients enabled, so the backward pass of the loss reaches
\* the peer's parameters (server_grad).
_policy_loss(self, batch, fwd, alpha, draw, server_agent) ==
  IF in_bc_regime(self.total_it, self.bc_steps)
  THEN LET mine == tanh_gaussian(PolicyMean(self.actor, batch.observations), draw.eps_bc)
           log_probs == policy_log_prob(self.actor, batch.observations, batch.actions, draw.eps_bc)
       IN [regime |-> "bc", reads |-> {"actor"},
           log_probs |-> log_probs,
           policy_loss |-> MulMilli(alpha, fwd.log_probs) - log_probs,
           grad |-> MulMilli(alpha, DLogPi(fwd.pre)) - DLogPi(mine.pre),
           server_grad |-> FALSE]
  ELSE LET q_new_actions == TorchMin(Q(self.critic_1, batch.observations, fwd.actions),
                                     Q(self.critic_2, batch.observations, fwd.actions))
           server_actions == actor_forward(server_agent.actor, batch.observations,
                                           draw.eps_server).actions
           logp_prob_server == get_log_density(self.actor, batch.observations, server_actions)
           logp_prob == get_log_density(self.actor, batch.observations, batch.actions)
           mean == PolicyMean(self.actor, batch.observations)
       IN [regime |-> "q", reads |-> {"actor", "critic_1", "critic_2", "server_agent"},
           log_probs |-> 0,
           policy_loss |-> (MulMilli(alpha, fwd.log_probs) - q_new_actions)
                             - MulMilli(self.policy_alpha, logp_prob)
                             - MulMilli(1000 - self.policy_alpha, logp_prob_server),
           grad |-> MulMilli(alpha, DLogPi(fwd.pre))
                      - (1000 - MulMilli(Tanh(fwd.pre), Tanh(fwd.pre)))
                      - self.policy_alpha * (Atanh(batch.actions) - mean)
                      - (1000 - self.policy_alpha) * (Atanh(server_actions) - mean),
           server_grad |-> TRUE]

\* torch.clamp
TorchClamp(x, lo, hi) == IF x < lo THEN lo ELSE IF x > hi THEN hi ELSE x

\* index of the largest entry (torch.max(..., dim=-1) indices)
ArgMax(xs) == CHOOSE i \in 1..Len(xs) : \A j \in 1..Len(xs) : xs[i] >= xs[j]

\* td_target that bootstraps from the online critics
td_target_online(self, batch, alpha, draw) ==
  LET single == actor_forward(self.actor, batch.next_observations, draw.eps_next)
      q0 == TorchMin(Q(self.critic_1, batch.next_observations, single.actions),
                     Q(self.critic_2, batch.next_observations, single.actions))
      target_q_values == IF self.backup_entropy
                         THEN q0 - MulMilli(alpha, single.log_probs) ELSE q0
  IN batch.rewards + (1 - batch.dones) * MulMilli(self.discount, target_q_values)

\* The TD target of _q_loss: r + (1 - done) * discount * v, v the smaller of
\* the two target critics at the next observation and a fresh policy action
\* (or the best of cql_n_actions candidates), less alpha * next_log_pi when
\* backup_entropy is set.
td_target(self, batch, alpha, draw) ==
  LET cand == [j \in 1..self.cql_n_actions |->
                 actor_forward(self.actor, batch.next_observations, draw.eps_cnext[j])]
      candq == [j \in 1..self.cql_n_actions |->
                 TorchMin(Q(self.target_critic_1, batch.next_observations, cand[j].actions),
                          Q(self.target_critic_2, batch.next_observations, cand[j].actions))]
      single == actor_forward(self.actor, batch.next_observations, draw.eps_next)
      next_log_pi == IF self.cql_max_target_backup
                     THEN cand[ArgMax(candq)].log_probs ELSE single.log_probs
      q0 == IF self.cql_max_target_backup
            THEN candq[ArgMax(candq)]
            ELSE TorchMin(Q(self.target_critic_1, batch.next_observations, single.actions),
                          Q(self.target_critic_2, batch.next_observations, single.actions))
      target_q_values == IF self.backup_entropy THEN q0 - MulMilli(alpha, next_log_pi) ELSE q0
  IN batch.rewards + (1 - batch.dones) * MulMilli(self.discount, target_q_values)

\* cql_cat that keeps the value at the dataset action under importance
\* sampling
cql_cat_four_groups(self, theta, batch, draw) ==
  LET n == self.cql_n_actions
      cur == [j \in 1..n |-> actor_forward(self.actor, batch.observations, draw.eps_cur[j])]
      nxt == [j \in 1..n |-> actor_forward(self.actor, batch.next_observations, draw.eps_cnext[j])]
      q_rand == [j \in 1..n |-> Q(theta, batch.observations, draw.rand[j])]
      q_cur == [j \in 1..n |-> Q(theta, batch.observations, cur[j].actions)]
      q_next == [j \in 1..n |-> Q(theta, batch.observations, nxt[j].actions)]
      q_pred == Q(theta, batch.observations, batch.actions)
  IN IF self.cql_importance_sample
     THEN [j \in 1..n |-> q_rand[j] + 693] \o <<q_pred>>
            \o [j \in 1..n |-> q_next[j] - nxt[j].log_probs]
            \o [j \in 1..n |-> q_cur[j] - cur[j].log_probs]
     ELSE q_rand \o <<q_pred>> \o q_next \o q_cur

\* The candidate values the log-sum-exp of one critic runs over (cql_cat_q).
cql_cat(self, theta, batch, draw) ==
  LET n == self.cql_n_actions
      cur == [j \in 1..n |-> actor_forward(self.actor, batch.observations, draw.eps_cur[j])]
      nxt == [j \in 1..n |-> actor_forward(self.actor, batch.next_observations, draw.eps_cnext[j])]
      q_rand == [j \in 1..n |-> Q(theta, batch.observations, draw.rand[j])]
      q_cur == [j \in 1..n |-> Q(theta, batch.observations, cur[j].actions)]
      q_next == [j \in 1..n |-> Q(theta, batch.observations, nxt[j].actions)]
      q_pred == Q(theta, batch.observations, batch.actions)
      \* np.log(0.5 ** action_dim), action_dim = 1
      random_density == -693
  IN IF self.cql_importance_sample
     THEN [j \in 1..n |-> q_rand[j] - random_density]
            \o [j \in 1..n |-> q_next[j] - nxt[j].log_probs]
            \o [j \in 1..n |-> q_cur[j] - cur[j].log_probs]
     ELSE q_rand \o <<q_pred>> \o q_next \o q_cur

\* cql_qf_diff of one critic: clamp(ood - predicted) with the default
\* clipping bounds (-inf, inf); ood is the log-sum-exp over cql_cat_q
cql_qf_diff(cql_cat_q, q_predicted) == logsumexp(cql_cat_q) - q_predicted

\* What _q_loss computes before it combines the terms: the two predicted
\* values, the TD target and the two conservative gaps.
q_loss_terms(self, batch, alpha, draw) ==
  Bind(Q(self.critic_1, batch.observations, batch.actions), LAMBDA q1_predicted :
  Bind(Q(self.critic_2, batch.observations, batch.actions), LAMBDA q2_predicted :
  Bind(cql_cat(self, self.critic_1, batch, draw), LAMBDA cql_cat_q1 :
  Bind(cql_cat(self, self.critic_2, batch, draw), LAMBDA cql_cat_q2 :
    [q1_predicted |-> q1_predicted,
     q2_predicted |-> q2_predicted,
     td |-> td_target(self, batch, alpha, draw),
     cql_cat_q1 |-> cql_cat_q1,
     cql_cat_q2 |-> cql_cat_q2,
     cql_qf1_diff |-> cql_qf_diff(cql_cat_q1, q1_predicted),
     cql_qf2_diff |-> cql_qf_diff(cql_cat_q2, q2_predicted),
     alpha_prime |-> IF self.cql_lagrange
                     THEN TorchClamp(ExpMilli(self.heap[self.log_alpha_prime]), 0, 1000000000)
                     ELSE 0]))))

\* cql_min_qf_loss of one critic
cql_min_qf_loss(self, alpha_prime, diff) ==
  IF self.cql_lagrange
  THEN MulMilli(MulMilli(alpha_prime, self.cql_alpha), diff - self.cql_target_action_gap)
  ELSE MulMilli(diff, self.cql_alpha)

\* alpha_prime_optimizer.zero_grad(); alpha_prime_loss.backward();
\* alpha_prime_optimizer.step().  The optimizer owns the Scalar "prime0"; the
\* gradient lands on the Scalar self.log_alpha_prime refers to.
alpha_prime_optimizer_step(self, grad) ==
  [self EXCEPT
     !.heap["prime0"] = IF self.log_alpha_prime = "prime0" THEN optimizer_step(@, grad, 1) ELSE @,
     !.optim.alpha_prime = @ + 1]

\* _q_loss that steps alpha_prime_optimizer whatever cql_lagrange says
_q_loss_always_steps(self, batch, alpha, draw) ==
  Bind(q_loss_terms(self, batch, alpha, draw), LAMBDA tm :
  Bind(cql_min_qf_loss(self, tm.alpha_prime, tm.cql_qf1_diff), LAMBDA cql_min_qf1_loss :
  Bind(cql_min_qf_loss(self, tm.alpha_prime, tm.cql_qf2_diff), LAMBDA cql_min_qf2_loss :
  Bind((-cql_min_qf1_loss - cql_min_qf2_loss) \div 2, LAMBDA alpha_prime_loss :
    [self |-> alpha_prime_optimizer_step(self, alpha_prime_loss),
     ops |-> <<"q_loss", "alpha_prime_backward", "alpha_prime_step">>,
     qf_loss |-> MulMilli(tm.q1_predicted - tm.td, tm.q1_predicted - tm.td)
                   + MulMilli(tm.q2_predicted - tm.td, tm.q2_predicted - tm.td)
                   + cql_min_qf1_loss + cql_min_qf2_loss,
     td_target |-> tm.td,
     alpha_prime |-> tm.alpha_prime,
     alpha_prime_loss |-> alpha_prime_loss,
     cql_cat_q1 |-> tm.cql_cat_q1,
     cql_cat_q2 |-> tm.cql_cat_q2,
     grad_1 |-> tm.q1_predicted - tm.td,
     grad_2 |-> tm.q2_predicted - tm.td]))))

\* _q_loss.  In Lagrange mode it steps alpha_prime_optimizer itself, before
\* it returns: the result carries the trainer after that step.
_q_loss(self, batch, alpha, draw) ==
  Bind(q_loss_terms(self, batch, alpha, draw), LAMBDA tm :
  Bind(cql_min_qf_loss(self, tm.alpha_prime, tm.cql_qf1_diff), LAMBDA cql_min_qf1_loss :
  Bind(cql_min_qf_loss(self, tm.alpha_prime, tm.cql_qf2_diff), LAMBDA cql_min_qf2_loss :
  Bind(IF self.cql_lagrange THEN (-cql_min_qf1_loss - cql_min_qf2_loss) \div 2 ELSE 0,
       LAMBDA alpha_prime_loss :
    [self |-> IF self.cql_lagrange
              THEN alpha_prime_optimizer_step(self, alpha_prime_loss) ELSE self,
     ops |-> IF self.cql_lagrange
             THEN <<"q_loss", "alpha_prime_backward", "alpha_prime_step">> ELSE <<"q_loss">>,
     qf_loss |-> MulMilli(tm.q1_predicted - tm.td, tm.q1_predicted - tm.td)
                   + MulMilli(tm.q2_predicted - tm.td, tm.q2_predicted - tm.td)
                   + cql_min_qf1_loss + cql_min_qf2_loss,
     td_target |-> tm.td,
     alpha_prime |-> tm.alpha_prime,
     alpha_prime_loss |-> alpha_prime_loss,
     cql_cat_q1 |-> tm.cql_cat_q1,
     cql_cat_q2 |-> tm.cql_cat_q2,
     \* d qf_loss / d critic: the candidate values and the predicted value
     \* move together with the critic's parameter, so only the TD error is left
     grad_1 |-> tm.q1_predicted - tm.td,
     grad_2 |-> tm.q2_predicted - tm.td]))))

\* update_target_network: both target critics, each from its own critic
update_target_network(self, soft_target_update_rate) ==
  [self EXCEPT
     !.target_critic_1 = soft_update(@, self.critic_1, soft_target_update_rate),
     !.target_critic_2 = soft_update(@, self.critic_2, soft_target_update_rate)]

\* alpha_optimizer.zero_grad(); alpha_loss.backward(); alpha_optimizer.step()
\* The optimizer owns the Scalar "alpha0"; the gradient lands on the Scalar
\* self.log_alpha refers to.
alpha_optimizer_step(self, grad) ==
  [self EXCEPT
     !.heap["alpha0"] = IF self.log_alpha = "alpha0" THEN optimizer_step(@, grad, 1) ELSE @,
     !.optim.alpha = @ + 1]

\* actor_optimizer.zero_grad(); policy_loss.backward(); actor_optimizer.step()
actor_optimizer_step(self, grad) ==
  [self EXCEPT !.actor = optimizer_step(@, grad, 1), !.optim.actor = @ + 1]

\* critic_optimizer_steps whose first optimizer also holds target critic 1
critic_optimizer_steps_shared(self, grad_1, grad_2) ==
  [self EXCEPT
     !.critic_1 = optimizer_step(@, grad_1, 1000), !.optim.critic_1 = @ + 1,
     !.target_critic_1 = optimizer_step(@, grad_1, 1000),
     !.critic_2 = optimizer_step(@, grad_2, 1000), !.optim.critic_2 = @ + 1]

\* critic_{1,2}_optimizer.zero_grad(); qf_loss.backward();
\* critic_1_optimizer.step(); critic_2_optimizer.step()
critic_optimizer_steps(self, grad_1, grad_2) ==
  [self EXCEPT
     !.critic_1 = optimizer_step(@, grad_1, 1000), !.optim.critic_1 = @ + 1,
     !.critic_2 = optimizer_step(@, grad_2, 1000), !.optim.critic_2 = @ + 1]

\* critics_and_sync with the target sync ahead of the critic step
critics_and_sync_sync_first(self, ql) ==
  Bind(sync_due(self.total_it, self.target_update_period), LAMBDA due :
  Bind(IF due THEN update_target_network(self, self.soft_target_update_rate) ELSE self,
       LAMBDA s5 :
    [self |-> critic_optimizer_steps(s5, ql.grad_1, ql.grad_2),
     ops |-> (IF due THEN <<"target_sync">> ELSE <<>>)
               \o <<"critic_backward", "critic_1_step", "critic_2_step">>,
     synced |-> due]))

\* The tail shared by train and train_ori after the actor step: the joint
\* critic step and the conditional target sync.
critics_and_sync(self, ql) ==
  Bind(critic_optimizer_steps(self, ql.grad_1, ql.grad_2), LAMBDA s5 :
  Bind(sync_due(s5.total_it, s5.target_update_period), LAMBDA due :
    [self |-> IF due THEN update_target_network(s5, s5.soft_target_update_rate) ELSE s5,
     ops |-> <<"critic_backward", "critic_1_step", "critic_2_step">>
               \o (IF due THEN <<"target_sync">> ELSE <<>>),
     synced |-> due]))

\* ContinuousCQL.train: the peer-aware training step
train(self, batch, draw, server_agent) ==
  Bind([self EXCEPT !.total_it = next_total_it(@)], LAMBDA s1 :
  Bind(actor_forward(s1.actor, batch.observations, draw.eps), LAMBDA fwd :
  Bind(_alpha_and_alpha_loss(s1, fwd.log_probs), LAMBDA al :
  Bind(_policy_loss(s1, batch, fwd, al.alpha, draw, server_agent), LAMBDA pl :
  Bind(_q_loss(s1, batch, al.alpha, draw), LAMBDA ql :
  Bind(IF s1.use_automatic_entropy_tuning
       THEN alpha_optimizer_step(ql.self, al.grad) ELSE ql.self, LAMBDA s3 :
  Bind(actor_optimizer_step(s3, clip_grad_norm(pl.grad)), LAMBDA s4 :
  Bind(critics_and_sync(s4, ql), LAMBDA tail :
    [self |-> tail.self,
     ops |-> <<"policy_loss">> \o ql.ops
               \o (IF s1.use_automatic_entropy_tuning
                   THEN <<"alpha_backward", "alpha_step">> ELSE <<>>)
               \o <<"actor_backward", "clip_grad_norm", "actor_step">>
               \o tail.ops,
     al |-> al, pl |-> pl, ql |-> ql, synced |-> tail.synced]))))))))

\* ContinuousCQL.train_ori: the standalone training step
train_ori(self, batch, draw) ==
  Bind([self EXCEPT !.total_it = next_total_it(@)], LAMBDA s1 :
  Bind(actor_forward(s1.actor, batch.observations, draw.eps), LAMBDA fwd :
  Bind(_alpha_and_alpha_loss(s1, fwd.log_probs), LAMBDA al :
  Bind(_policy_loss_ori(s1, batch, fwd, al.alpha, draw), LAMBDA pl :
  Bind(_q_loss(s1, batch, al.alpha, draw), LAMBDA ql :
  Bind(IF s1.use_automatic_entropy_tuning
       THEN alpha_optimizer_step(ql.self, al.grad) ELSE ql.self, LAMBDA s3 :
  Bind(actor_optimizer_step(s3, pl.grad), LAMBDA s4 :
  Bind(critics_and_sync(s4, ql), LAMBDA tail :
    [self |-> tail.self,
     ops |-> <<"policy_loss">> \o ql.ops
               \o (IF s1.use_automatic_entropy_tuning
                   THEN <<"alpha_backward", "alpha_step">> ELSE <<>>)
               \o <<"actor_backward", "actor_step">>
               \o tail.ops,
     al |-> al, pl |-> pl, ql |-> ql, synced |-> tail.synced]))))))))

\* ContinuousCQL.state_dict, as torch.save writes it: the values of every
\* entry.  It reads self.alpha_optimizer, which __init__ creates only when
\* use_automatic_entropy_tuning is set.
state_dict(self) ==
  [ actor |-> self.actor,
    critic1 |-> self.critic_1, critic2 |-> self.critic_2,
    critic1_target |-> self.target_critic_1, critic2_target |-> self.target_critic_2,
    critic_1_optimizer |-> self.optim.critic_1,
    critic_2_optimizer |-> self.optim.critic_2,
    actor_optim |-> self.optim.actor,
    sac_log_alpha |-> self.heap[self.log_alpha],
    sac_log_alpha_optim |-> self.optim.alpha,
    cql_log_alpha |-> self.heap[self.log_alpha_prime],
    cql_log_alpha_optim |-> self.optim.alpha_prime,
    total_it |-> self.total_it ]

state_dict_outcome(self) ==
  IF self.use_automatic_entropy_tuning THEN "ok" ELSE "AttributeError"

\* load_state_dict up to and including `self.log_alpha = ...`
load_first_part(self, sd) ==
  [self EXCEPT
     !.actor = sd.actor,
     !.critic_1 = sd.critic1, !.critic_2 = sd.critic2,
     !.target_critic_1 = sd.critic1_target, !.target_critic_2 = sd.critic2_target,
     !.optim.critic_1 = sd.critic_1_optimizer,
     !.optim.critic_2 = sd.critic_2_optimizer,
     !.optim.actor = sd.actor_optim,
     !.log_alpha = "alpha1",
     !.heap["alpha1"] = sd.sac_log_alpha]

\* the rest of load_state_dict, from self.alpha_optimizer.load_state_dict on
load_second_part(self, sd) ==
  [self EXCEPT
     !.optim.alpha = sd.sac_log_alpha_optim,
     !.log_alpha_prime = "prime1",
     !.heap["prime1"] = sd.cql_log_alpha,
     !.optim.alpha_prime = sd.cql_log_alpha_optim,
     !.total_it = sd.total_it]

\* ContinuousCQL.load_state_dict of a checkpoint read by torch.load.
\* Without automatic entropy tuning there is no alpha_optimizer: the call
\* raises AttributeError after the first part has been applied.
load_state_dict(self, sd) ==
  IF self.use_automatic_entropy_tuning
  THEN load_second_part(load_first_part(self, sd), sd)
  ELSE load_first_part(self, sd)

load_state_dict_outcome(self) ==
  IF self.use_automatic_entropy_tuning THEN "ok" ELSE "AttributeError"

\* ---------------------------------------------------------------- actions

\* One-row batches (observation, action, reward, next observation, done) as
\* sample returns them; the first two differ in the dataset action only.
Batches ==
  << [observations |-> 0, actions |-> 762,  rewards |-> 1000,  next_observations |-> 1, dones |-> 0],
     [observations |-> 0, actions |-> -762, rewards |-> 1000,  next_observations |-> 1, dones |-> 0],
     [observations |-> 1, actions |-> 0,    rewards |-> -1000, next_observations |-> 0, dones |-> 1] >>

\* The random draws of one training call: the standard-normal draws of the
\* policy samples (new action, the sample inside log_prob, next action,
\* candidates) and the uniform random actions.
\* The sequences hold one draw per candidate; a call uses the first
\* cql_n_actions of them.
Draws ==
  << [eps |-> 1, eps_bc |-> -1, eps_next |-> 0, rand |-> <<0, 762, -762, 964>>,
      eps_cur |-> <<1, 0, -1, 2>>, eps_cnext |-> <<-1, 1, 0, 2>>, eps_server |-> 0],
     [eps |-> -1, eps_bc |-> 2, eps_next |-> 1, rand |-> <<762, 0, -964, -762>>,
      eps_cur |-> <<0, 1, -1, 2>>, eps_cnext |-> <<1, -1, 0, -2>>, eps_server |-> 1] >>

TrainInputs ==
  { [batch |-> Batches[1], draw |-> Draws[1]],
    [batch |-> Batches[2], draw |-> Draws[1]],
    [batch |-> Batches[3], draw |-> Draws[2]] }

NoCall ==
  [op |-> "none", outcome |-> "none", t |-> 0, regime |-> "none", reads |-> {},
   log_probs |-> 0, policy_loss |-> 0, qf_loss |-> 0, td_target |-> 0,
   alpha |-> 0, alpha_loss |-> 0,
   alpha_prime |-> 0, synced |-> FALSE, ops |-> <<>>,
   cql_cat_q1 |-> <<>>, cql_cat_q2 |-> <<>>, tau |-> 0,
   batch |-> Batches[1], draw |-> Draws[1]]

\* what a training call leaves in `last`
CallRecord(op, r, in) ==
  [op |-> op, outcome |-> "ok", t |-> r.self.total_it, regime |-> r.pl.regime,
   reads |-> r.pl.reads, log_probs |-> r.pl.log_probs, policy_loss |-> r.pl.policy_loss,
   qf_loss |-> r.ql.qf_loss, td_target |-> r.ql.td_target,
   alpha |-> r.al.alpha, alpha_loss |-> r.al.alpha_loss,
   alpha_prime |-> r.ql.alpha_prime, synced |-> r.synced, ops |-> r.ops,
   cql_cat_q1 |-> r.ql.cql_cat_q1, cql_cat_q2 |-> r.ql.cql_cat_q2,
   tau |-> r.self.soft_target_update_rate,
   batch |-> in.batch, draw |-> in.draw]

HistAfter(r) ==
  [hist EXCEPT !.n_calls = @ + 1,
               !.n_syncs = IF r.synced THEN @ + 1 ELSE @,
               !.seen_q = @ \/ r.pl.regime = "q",
               !.q_since_load = @ \/ r.pl.regime = "q"]

\* A checkpoint written by an earlier run of a freshly built trainer with
\* automatic entropy tuning (the file config.load_model names).
EarlierCheckpoint == state_dict(NewTrainer(TRUE, FALSE, 0, 1))

TrainerInit ==
  /\ \E auto \in BOOLEAN, lagrange \in BOOLEAN, bc_steps \in 0..MaxBcSteps,
        period \in 1..MaxPeriod :
       trainer = NewTrainer(auto, lagrange, bc_steps, period)
  /\ peer = [actor |-> 1, grad |-> FALSE]
  /\ ckpt \in { <<>>, <<EarlierCheckpoint>> }
  /\ last = NoCall
  /\ hist = [n_calls |-> 0, n_syncs |-> 0, seen_q |-> FALSE, reloaded |-> FALSE,
             q_since_load |-> FALSE]
  /\ twin = [self |-> trainer, last |-> NoCall]

Train ==
  /\ hist.n_calls < MaxCalls
  /\ \E in \in TrainInputs :
       \E r \in { train(trainer, in.batch, in.draw, peer) } :
          /\ trainer' = r.self
          /\ peer' = [peer EXCEPT !.grad = @ \/ r.pl.server_grad]
          /\ last' = CallRecord("train", r, in)
          /\ hist' = HistAfter(r)
          /\ UNCHANGED <<ckpt, twin, allbufvars>>

TrainOri ==
  /\ hist.n_calls < MaxCalls
  /\ \E in \in TrainInputs :
       \E r \in { train_ori(trainer, in.batch, in.draw) } :
          /\ trainer' = r.self
          /\ last' = CallRecord("train_ori", r, in)
          /\ hist' = HistAfter(r)
          /\ UNCHANGED <<peer, ckpt, twin, allbufvars>>

\* One call of the same batch to both trainers: trainer.train(batch,
\* server_agent) and twin.train_ori(batch).
TrainBoth ==
  /\ hist.n_calls < MaxCalls
  /\ \E in \in TrainInputs :
       \E r \in { train(trainer, in.batch, in.draw, peer) } :
         \E o \in { train_ori(twin.self, in.batch, in.draw) } :
            /\ trainer' = r.self
            /\ peer' = [peer EXCEPT !.grad = @ \/ r.pl.server_grad]
            /\ last' = CallRecord("train", r, in)
            /\ hist' = HistAfter(r)
            /\ twin' = [self |-> o.self, last |-> CallRecord("train_ori", o, in)]
            /\ UNCHANGED <<ckpt, allbufvars>>

\* torch.save(trainer.state_dict(), file)
StateDict ==
  /\ last' = [NoCall EXCEPT !.op = "state_dict", !.outcome = state_dict_outcome(trainer),
                            !.t = trainer.total_it]
  /\ ckpt' = IF state_dict_outcome(trainer) = "ok" THEN <<state_dict(trainer)>> ELSE ckpt
  /\ UNCHANGED <<trainer, peer, hist, twin, allbufvars>>

\* trainer.load_state_dict(torch.load(file))
LoadStateDict ==
  /\ ckpt # <<>>
  /\ trainer' = load_state_dict(trainer, ckpt[1])
  /\ last' = [NoCall EXCEPT !.op = "load_state_dict",
                            !.outcome = load_state_dict_outcome(trainer),
                            !.t = trainer'.total_it]
  /\ hist' = IF load_state_dict_outcome(trainer) = "ok"
             THEN [hist EXCEPT !.reloaded = TRUE, !.q_since_load = FALSE]
             ELSE hist
  /\ UNCHANGED <<peer, ckpt, twin, allbufvars>>

\* The trainer with other settings of the critic-loss switches than the
\* defaults (keyword arguments of __init__).
WithConfig(self, backup_entropy, cql_max_target_backup, cql_importance_sample, cql_n_actions) ==
  [self EXCEPT !.backup_entropy = backup_entropy,
               !.cql_max_target_backup = cql_max_target_backup,
               !.cql_importance_sample = cql_importance_sample,
               !.cql_n_actions = cql_n_actions]

\* Parameter values of critic 1, critic 2, target critic 1 and target
\* critic 2, as training can leave them.
CriticStates ==
  { <<2000, -1000, 0, 1000>>, <<1000, 3000, 2000, -2000>> }

WithCritics(self, c) ==
  [self EXCEPT !.critic_1 = c[1], !.critic_2 = c[2],
               !.target_critic_1 = c[3], !.target_critic_2 = c[4]]

\* The rates update_target_network is called with: none, one half, all.
Taus == {0, 500, 1000}

\* The alpha values _q_loss is called with.
Alphas == {1000, 2000}

\* self._q_loss(...) called on its own
QLoss ==
  /\ trainer.optim.alpha_prime < MaxCalls
  /\ \E in \in TrainInputs, alpha \in Alphas :
       \E r \in { _q_loss(trainer, in.batch, alpha, in.draw) } :
          /\ trainer' = r.self
          /\ last' = [NoCall EXCEPT !.op = "_q_loss", !.outcome = "ok",
                                    !.t = trainer.total_it,
                                    !.qf_loss = r.qf_loss, !.td_target = r.td_target,
                                    !.alpha = alpha, !.alpha_prime = r.alpha_prime,
                                    !.ops = r.ops,
                                    !.cql_cat_q1 = r.cql_cat_q1,
                                    !.cql_cat_q2 = r.cql_cat_q2,
                                    !.batch = in.batch, !.draw = in.draw]
          /\ UNCHANGED <<peer, ckpt, hist, twin, allbufvars>>

\* self.update_target_network(tau) called on its own
UpdateTargetNetwork ==
  /\ hist.n_syncs < MaxSyncs
  /\ \E tau \in Taus :
       /\ trainer' = update_target_network(trainer, tau)
       /\ last' = [NoCall EXCEPT !.op = "update_target_network", !.outcome = "ok",
                                 !.t = trainer.total_it, !.tau = tau]
  /\ hist' = [hist EXCEPT !.n_syncs = @ + 1]
  /\ UNCHANGED <<peer, ckpt, twin, allbufvars>>

\* ---------------------------------------------------------- specifications

\* The trainer, beside a buffer nobody touches.
Init == TrainerInit /\ BufferInit /\ _buffer_size = MaxCapacity
Next == Train \/ TrainOri \/ StateDict \/ LoadStateDict
Spec == Init /\ [][Next]_vars

\* The replay buffer, beside a trainer nobody touches.
InitBuffer ==
  /\ BufferInit
  /\ trainer = NewTrainer(TRUE, FALSE, 0, 1)
  /\ peer = [actor |-> 1, grad |-> FALSE]
  /\ ckpt = <<>>
  /\ last = NoCall
  /\ hist = [n_calls |-> 0, n_syncs |-> 0, seen_q |-> FALSE, reloaded |-> FALSE,
             q_since_load |-> FALSE]
  /\ twin = [self |-> trainer, last |-> NoCall]
NextBuffer == Load \/ Sample \/ add_transition
SpecBuffer == InitBuffer /\ [][NextBuffer]_vars

\* The critic loss and the target sync on their own, over the settings of
\* the critic-loss switches and over critics that differ from their targets.
InitLoss ==
  /\ \E lagrange \in BOOLEAN, backup_entropy \in BOOLEAN, cql_max_target_backup \in BOOLEAN,
        cql_importance_sample \in BOOLEAN, cql_n_actions \in 1..MaxActions,
        c \in CriticStates :
       trainer = WithCritics(WithConfig(NewTrainer(TRUE, lagrange, 0, 1),
                                        backup_entropy, cql_max_target_backup,
                                        cql_importance_sample, cql_n_actions), c)
  /\ peer = [actor |-> 1, grad |-> FALSE]
  /\ ckpt = <<>>
  /\ last = NoCall
  /\ hist = [n_calls |-> 0, n_syncs |-> 0, seen_q |-> FALSE, reloaded |-> FALSE,
             q_since_load |-> FALSE]
  /\ twin = [self |-> trainer, last |-> NoCall]
  /\ BufferInit /\ _buffer_size = MaxCapacity
NextLoss == QLoss \/ UpdateTargetNetwork
SpecLoss == InitLoss /\ [][NextLoss]_vars

\* Two trainers of one configuration side by side, the first run with
\* train, the second with train_ori, on the same batches.
InitPair == TrainerInit /\ ckpt = <<>> /\ BufferInit /\ _buffer_size = MaxCapacity
NextPair == TrainBoth
SpecPair == InitPair /\ [][NextPair]_vars

\* ------------------------------------------------- ReplayBuffer properties

\* A load call fails exactly when its guard says so.
LoadMustFail(data) == _size # 0 \/ Len(data) > _buffer_size

\* C8: a load raises whenever the buffer already holds data or the dataset
\* exceeds the capacity, and a load that raises leaves the stored rows, the
\* size and the pointer as they were; a dataset of exactly buffer_size rows
\* loaded into an empty buffer succeeds.
C8_FailingLoadAtomic ==
  [][ ret'.op = "load" =>
        /\ LoadMustFail(ret'.data) => ret'.outcome = "ValueError"
        /\ ret'.outcome # "ok" => UNCHANGED bufvars
        /\ (_size = 0 /\ Len(ret'.data) = _buffer_size) =>
              (ret'.outcome = "ok" /\ _size' = _buffer_size) ]_vars

\* C8 witness: a load into a buffer that holds data was refused although the
\* dataset would fit.
C8_Witness ==
  /\ ret.op = "load" /\ ret.outcome = "ValueError"
  /\ _size > 0 /\ Len(ret.data) <= _buffer_size
  /\ loaded # ret.data

\* The storage holds exactly the rows of the load that succeeded.
HoldsLoaded ==
  /\ _size = Len(loaded) /\ _pointer = Len(loaded)
  /\ \A i \in 1..Len(loaded) :
       /\ _states[i] = loaded[i].observations
       /\ _actions[i] = loaded[i].actions
       /\ _rewards[i] = loaded[i].rewards
       /\ _next_states[i] = loaded[i].next_observations
       /\ _dones[i] = (IF loaded[i].terminals THEN 1 ELSE 0)

\* C9 as claimed: a load that succeeded (any dataset of 0 .. buffer_size
\* rows) followed immediately by a second load always fails, the buffer
\* unchanged.
C9_SecondLoadFails_Claimed ==
  [][ (ret.op = "load" /\ ret.outcome = "ok" /\ ret'.op = "load") =>
        (ret'.outcome = "ValueError" /\ UNCHANGED bufvars /\ HoldsLoaded') ]_vars

\* C9 amended: a load of 1 .. buffer_size rows that succeeded, followed
\* immediately by a second load, makes the second load fail and the buffer
\* keeps exactly the first load's rows, size and pointer.
C9_SecondLoadFails ==
  [][ (ret.op = "load" /\ ret.outcome = "ok" /\ Len(ret.data) >= 1 /\ ret'.op = "load") =>
        (ret'.outcome = "ValueError" /\ UNCHANGED bufvars
           /\ loaded' = ret.data /\ HoldsLoaded') ]_vars

\* C9 witness: a second load of a different dataset was refused and the
\* buffer still holds the first load's rows.
C9_Witness ==
  /\ ret.op = "load" /\ ret.outcome = "ValueError"
  /\ Len(loaded) >= 1 /\ Len(ret.data) >= 1 /\ ret.data # loaded
  /\ Len(ret.data) <= _buffer_size
  /\ HoldsLoaded

\* Row i of a returned batch, as a dataset row.
BatchRow(batch, i) ==
  [observations |-> batch[1][i], actions |-> batch[2][i], rewards |-> batch[3][i],
   next_observations |-> batch[4][i], terminals |-> (batch[5][i] = 1)]

\* C10: after a load of n >= 1 rows, sample(B) succeeds for every B >= 1 and
\* returns five sequences of length B; the five components at position i are
\* those of the loaded row at the sampled index, which is below n.
C10_SampleAligned ==
  (ret.op = "sample" /\ Len(loaded) >= 1) =>
     /\ ret.outcome = "ok"
     /\ Len(ret.batch) = 5
     /\ \A c \in 1..5 : Len(ret.batch[c]) = ret.batch_size
     /\ Len(ret.indices) = ret.batch_size
     /\ \A i \in 1..ret.batch_size :
          /\ ret.indices[i] \in 0..(Len(loaded) - 1)
          /\ BatchRow(ret.batch, i) = loaded[ret.indices[i] + 1]

\* C10 witness: a batch of two different rows, drawn from a buffer with an
\* unpopulated slot left.
C10_Witness ==
  /\ ret.op = "sample" /\ ret.outcome = "ok" /\ ret.batch_size = 2
  /\ Len(loaded) >= 1 /\ Len(loaded) < _buffer_size
  /\ ret.indices[1] = 0

\* C11: in every state reachable by load, sample and add_transition calls,
\* failing ones included, 0 <= _size <= _buffer_size and _pointer = _size,
\* and every index a sample used lies in [0, min(_size, _pointer)), inside
\* the populated slots [0, _size).
C11_BufferInvariant ==
  /\ 0 <= _size /\ _size <= _buffer_size
  /\ _pointer = _size
  /\ (ret.op = "sample" /\ ret.outcome = "ok") =>
        \A i \in 1..Len(ret.indices) :
          /\ 0 <= ret.indices[i]
          /\ ret.indices[i] < Min(_size, _pointer)
          /\ ret.indices[i] < _size

\* C11 witness: a sample of two rows used the last populated slot and the
\* first one.
C11_Witness ==
  /\ ret.op = "sample" /\ ret.outcome = "ok"
  /\ _size >= 2 /\ _pointer = _size
  /\ ret.batch_size = 2
  /\ ret.indices[1] = _size - 1 /\ ret.indices[2] = 0

\* C12: a sample call, of any batch size and in any buffer state, leaves the
\* stored transitions, the size and the pointer as they were, so that after
\* any number of sample calls the buffer holds what the load put there.
C12_SampleReadOnly ==
  [][ ret'.op = "sample" =>
        /\ UNCHANGED bufvars
        /\ loaded' = loaded
        /\ HoldsLoaded => HoldsLoaded' ]_vars

\* C12 witness: a sample of one row from a full buffer, which still holds
\* the loaded rows.
C12_Witness ==
  /\ ret.op = "sample" /\ ret.outcome = "ok" /\ ret.batch_size = 1
  /\ Len(loaded) = _buffer_size /\ _buffer_size >= 2
  /\ ret.indices[1] = 1
  /\ HoldsLoaded

\* C13: add_transition raises NotImplementedError in every buffer state and
\* leaves the stored transitions, the size and the pointer as they were.
C13_AddNotImplemented ==
  [][ ret'.op = "add_transition" =>
        /\ ret'.outcome = "NotImplementedError"
        /\ UNCHANGED bufvars
        /\ loaded' = loaded ]_vars

\* C13 witness: add_transition was refused on a loaded buffer.
C13_Witness ==
  /\ ret.op = "add_transition" /\ ret.outcome = "NotImplementedError"
  /\ Len(loaded) >= 1 /\ HoldsLoaded

\* C23: a sample call on a buffer that holds no data (never loaded, loaded
\* with an empty dataset, or after a first load that failed) raises an error
\* for every batch size >= 1 and returns no batch; a batch that is returned
\* is never built from unpopulated slots.
C23_SampleEmptyFails ==
  [][ ret'.op = "sample" =>
        /\ _size = 0 =>
              (ret'.outcome = "ValueError" /\ ret'.batch = <<>> /\ ret'.indices = <<>>)
        /\ (ret = NoRet) => ret'.outcome = "ValueError"
        /\ (ret.op = "load" /\ ret.outcome = "ok" /\ Len(ret.data) = 0) =>
              ret'.outcome = "ValueError"
        /\ (ret.op = "load" /\ ret.outcome = "ValueError" /\ loaded = <<>>) =>
              ret'.outcome = "ValueError"
        /\ ret'.outcome = "ok" =>
              /\ _size >= 1
              /\ \A i \in 1..Len(ret'.indices) : ret'.indices[i] + 1 <= Len(loaded)
        /\ ret'.batch_size >= 1
        /\ UNCHANGED bufvars ]_vars

\* C23 witness: a sample of two rows was refused on a buffer of two slots
\* that holds nothing.
C23_Witness ==
  /\ ret.op = "sample" /\ ret.outcome = "ValueError" /\ ret.batch_size = 2
  /\ _size = 0 /\ _pointer = 0 /\ loaded = <<>> /\ _buffer_size = 2
  /\ ret.batch = <<>>

\* ------------------------------------------------ ContinuousCQL properties

TrainOps == {"train", "train_ori"}

\* this step is a training call (train or train_ori)
IsTrainStep == hist'.n_calls = hist.n_calls + 1

\* C1: every training call of either variant adds exactly one to total_it; a
\* trainer whose counter no load_state_dict has restored has total_it equal
\* to the number of training calls made.
C1_CounterOncePerCall ==
  [][ IsTrainStep =>
        /\ last'.op \in TrainOps
        /\ trainer'.total_it = trainer.total_it + 1
        /\ last'.t = trainer'.total_it
        /\ ~hist'.reloaded => trainer'.total_it = hist'.n_calls ]_vars

\* C1 witness: three calls, of both variants, and the counter is 3.
C1_Witness ==
  /\ hist.n_calls = 3 /\ trainer.total_it = 3 /\ ~hist.reloaded
  /\ last.op = "train" /\ last.t = 3

\* C2 as claimed: over any sequence of training calls, saves and loads, a
\* training call after one in the Q regime is never in the behavior-cloning
\* regime.
C2_RegimeOneWay_Claimed ==
  (last.op \in TrainOps /\ hist.seen_q) => last.regime = "q"

\* C2 amended: once a training call has been in the Q regime, no later
\* training call is in the behavior-cloning regime unless a load_state_dict
\* in between has restored the step counter from a checkpoint.
C2_RegimeOneWay ==
  [][ (IsTrainStep /\ hist.q_since_load) =>
        (last'.regime = "q" /\ last'.t > trainer.bc_steps) ]_vars

\* C2 witness: a Q-regime call that follows a Q-regime call, with a save and
\* a failed or successful load earlier in the run.
C2_Witness ==
  /\ last.op \in TrainOps /\ last.regime = "q" /\ hist.q_since_load
  /\ last.t >= trainer.bc_steps + 2 /\ trainer.bc_steps >= 1
  /\ ckpt # <<>>

\* The actor loss a training call computes from trainer state `self`.
ActorLossOf(self, op, batch, draw) ==
  LET s1 == [self EXCEPT !.total_it = @ + 1]
      fwd == actor_forward(s1.actor, batch.observations, draw.eps)
      al == _alpha_and_alpha_loss(s1, fwd.log_probs)
  IN IF op = "train" THEN _policy_loss(s1, batch, fwd, al.alpha, draw, peer)
     ELSE _policy_loss_ori(s1, batch, fwd, al.alpha, draw)

\* both critics shifted by d
ShiftCritics(self, d) == [self EXCEPT !.critic_1 = @ + d, !.critic_2 = @ + d]

\* C3: a training call whose counter, as the actor loss sees it, is in
\* 0..bc_steps computes an actor loss that reads no critic (it does not
\* change when the critics do); the call with counter bc_steps+1 reads both
\* critics through their minimum.  From a fresh trainer the first call whose
\* actor loss reads the critics is call number bc_steps+1.
C3_CriticsOnlyAfterBc ==
  [][ IsTrainStep =>
        LET rec == last'
            shifted == ActorLossOf(ShiftCritics(trainer, 1000), rec.op, rec.batch, rec.draw)
        IN /\ rec.t <= trainer.bc_steps =>
                /\ rec.reads \cap {"critic_1", "critic_2"} = {}
                /\ shifted.policy_loss = rec.policy_loss
           /\ rec.t = trainer.bc_steps + 1 =>
                /\ {"critic_1", "critic_2"} \subseteq rec.reads
                /\ shifted.policy_loss = rec.policy_loss - 1000
           /\ ~hist'.reloaded =>
                /\ (rec.reads \cap {"critic_1", "critic_2"} # {}) = (hist'.n_calls >= trainer.bc_steps + 1)
                /\ hist'.seen_q = (hist'.n_calls >= trainer.bc_steps + 1) ]_vars

\* C3 witness: with bc_steps = 1 the second call from a fresh trainer is the
\* first one in the Q regime.
C3_Witness ==
  /\ last.op = "train_ori" /\ last.regime = "q" /\ last.t = trainer.bc_steps + 1
  /\ trainer.bc_steps = 1 /\ hist.n_calls = 2 /\ ~hist.reloaded

\* C4 as claimed: in the behavior-cloning regime the imitation term is the
\* policy's log-density at the dataset action of the batch.
\* (so that a batch with the same observation and the same draws but another
\* dataset action gives another imitation term).
C4_ImitationAtDatasetAction_Claimed ==
  [][ (IsTrainStep /\ last'.regime = "bc") =>
        /\ last'.log_probs = get_log_density(trainer.actor, last'.batch.observations,
                                             last'.batch.actions)
        /\ \A i \in 1..Len(Batches) :
             (/\ Batches[i].observations = last'.batch.observations
              /\ Batches[i].actions # last'.batch.actions) =>
                policy_log_prob(trainer.actor, Batches[i].observations, Batches[i].actions,
                                last'.draw.eps_bc) # last'.log_probs ]_vars

\* C5: the target critics are synchronised in exactly the training calls
\* whose incremented counter is a multiple of target_update_period, as the
\* last step of the call, from the critics as the call's optimizer step left
\* them; after N calls from a fresh trainer N \div period syncs were made.
C5_SyncCadence ==
  [][ IsTrainStep =>
        LET rec == last'
            period == trainer.target_update_period
            due == (trainer.total_it + 1) % period = 0
        IN /\ rec.synced = due
           /\ hist'.n_syncs = hist.n_syncs + (IF due THEN 1 ELSE 0)
           /\ due => /\ rec.ops[Len(rec.ops)] = "target_sync"
                     /\ rec.ops[Len(rec.ops) - 1] = "critic_2_step"
                     /\ trainer'.target_critic_1 =
                          soft_update(trainer.target_critic_1, trainer'.critic_1,
                                      trainer.soft_target_update_rate)
                     /\ trainer'.target_critic_2 =
                          soft_update(trainer.target_critic_2, trainer'.critic_2,
                                      trainer.soft_target_update_rate)
           /\ ~due => \A i \in 1..Len(rec.ops) : rec.ops[i] # "target_sync"
           /\ ~hist'.reloaded => hist'.n_syncs = hist'.n_calls \div period ]_vars

\* C5 witness: period 2, three calls from a fresh trainer, one sync, and the
\* third call made none.
C5_Witness ==
  /\ trainer.target_update_period = 2 /\ hist.n_calls = 3 /\ hist.n_syncs = 1
  /\ ~hist.reloaded /\ last.op \in TrainOps /\ ~last.synced
  /\ trainer.target_critic_1 # trainer.critic_1

\* position of an operation in the log of a call, 0 when absent
Pos(ops, name) ==
  IF \E i \in 1..Len(ops) : ops[i] = name
  THEN CHOOSE i \in 1..Len(ops) : ops[i] = name ELSE 0

Count(ops, name) == Cardinality({ i \in 1..Len(ops) : ops[i] = name })

\* The critic loss a training call computes from trainer state `self`.
CriticLossOf(self, batch, draw) ==
  LET s1 == [self EXCEPT !.total_it = @ + 1]
      fwd == actor_forward(s1.actor, batch.observations, draw.eps)
      al == _alpha_and_alpha_loss(s1, fwd.log_probs)
  IN _q_loss(s1, batch, al.alpha, draw)

\* C6: in every training call the updates come in the order (a) entropy
\* coefficient step, made exactly when automatic entropy tuning is on, (b)
\* actor step, (c) one joint backward pass of the critic loss and the steps
\* of critic 1 and critic 2, (d) the target sync when it is due; the actor
\* loss and the critic loss are those of the parameter values the call
\* started with.
C6_UpdateOrder ==
  [][ IsTrainStep =>
        LET rec == last'
            ops == rec.ops
            auto == trainer.use_automatic_entropy_tuning
        IN /\ Count(ops, "alpha_step") = (IF auto THEN 1 ELSE 0)
           /\ Count(ops, "actor_step") = 1
           /\ Count(ops, "critic_backward") = 1
           /\ Count(ops, "critic_1_step") = 1
           /\ Count(ops, "critic_2_step") = 1
           /\ Count(ops, "target_sync") = (IF rec.synced THEN 1 ELSE 0)
           /\ auto => Pos(ops, "alpha_step") < Pos(ops, "actor_step")
           /\ Pos(ops, "actor_step") < Pos(ops, "critic_backward")
           /\ Pos(ops, "critic_backward") < Pos(ops, "critic_1_step")
           /\ Pos(ops, "critic_1_step") < Pos(ops, "critic_2_step")
           /\ rec.synced => Pos(ops, "critic_2_step") < Pos(ops, "target_sync")
           /\ Pos(ops, "policy_loss") = 1
           /\ Pos(ops, "q_loss") = 2
           /\ rec.policy_loss = ActorLossOf(trainer, rec.op, rec.batch, rec.draw).policy_loss
           /\ rec.qf_loss = CriticLossOf(trainer, rec.batch, rec.draw).qf_loss
           /\ rec.td_target = CriticLossOf(trainer, rec.batch, rec.draw).td_target
           \* the sync, being last, sees the critics the critic step produced
           /\ rec.synced =>
                trainer'.target_critic_1 =
                  soft_update(trainer.target_critic_1, trainer'.critic_1,
                              trainer.soft_target_update_rate) ]_vars

\* C6 witness: a call with all four kinds of update, in which the actor and
\* a critic moved.
C6_Witness ==
  /\ last.op \in TrainOps /\ last.synced /\ trainer.use_automatic_entropy_tuning
  /\ Len(last.ops) >= 8
  /\ hist.n_calls >= 2 /\ trainer.critic_1 # 0 /\ trainer.actor # 0

\* the fields of the trainer outside `names` are the same in a and b
SameExcept(a, b, names) ==
  \A f \in (DOMAIN a) \ names : a[f] = b[f]

\* C7: the actor step writes the actor only, the critic steps write critic 1
\* and critic 2 only, the target critics are written by the target sync
\* only; a training call whose counter is not a multiple of
\* target_update_period leaves both target critics as they were.
C7_SingleWriter ==
  [][ IsTrainStep =>
        /\ \A g \in {-1000, 0, 1000} :
             /\ SameExcept(actor_optimizer_step(trainer, g), trainer, {"actor", "optim"})
             /\ SameExcept(critic_optimizer_steps(trainer, g, -g), trainer,
                           {"critic_1", "critic_2", "optim"})
             /\ critic_optimizer_steps(trainer, g, 0).critic_2 = trainer.critic_2
             /\ critic_optimizer_steps(trainer, 0, g).critic_1 = trainer.critic_1
        /\ SameExcept(update_target_network(trainer, trainer.soft_target_update_rate),
                      trainer, {"target_critic_1", "target_critic_2"})
        /\ SameExcept(trainer', trainer,
                      {"total_it", "actor", "critic_1", "critic_2", "heap", "optim",
                       "target_critic_1", "target_critic_2"})
        /\ (trainer'.total_it % trainer.target_update_period # 0) =>
              /\ trainer'.target_critic_1 = trainer.target_critic_1
              /\ trainer'.target_critic_2 = trainer.target_critic_2 ]_vars

\* C7 witness: a call without sync moved both critics away from targets
\* that an earlier sync had set.
C7_Witness ==
  /\ last.op \in TrainOps /\ ~last.synced /\ hist.n_syncs >= 1
  /\ trainer.total_it % trainer.target_update_period # 0
  /\ trainer.target_critic_1 # trainer.critic_1
  /\ trainer.target_critic_2 # trainer.critic_2
  /\ trainer.target_critic_1 # 0

\* C14: without automatic entropy tuning every training call has alpha equal
\* to alpha_multiplier and an alpha loss of zero, and makes no backward pass
\* and no optimizer step for the entropy coefficient; alpha is the same in
\* every call.
C14_FixedAlpha ==
  [][ (IsTrainStep /\ ~trainer.use_automatic_entropy_tuning) =>
        /\ last'.alpha = trainer.alpha_multiplier
        /\ last'.alpha_loss = 0
        /\ Count(last'.ops, "alpha_step") = 0
        /\ Count(last'.ops, "alpha_backward") = 0
        /\ trainer'.optim.alpha = trainer.optim.alpha
        /\ trainer'.heap["alpha0"] = trainer.heap["alpha0"]
        /\ trainer'.heap["alpha1"] = trainer.heap["alpha1"]
        /\ trainer'.alpha_multiplier = trainer.alpha_multiplier
        /\ last.op \in TrainOps => last'.alpha = last.alpha ]_vars

\* C14 witness: three calls without tuning, the last with a log-probability
\* that differs from the target entropy, and no alpha step was ever made.
C14_Witness ==
  /\ ~trainer.use_automatic_entropy_tuning
  /\ last.op \in TrainOps /\ hist.n_calls = 3
  /\ last.alpha = trainer.alpha_multiplier /\ last.alpha_loss = 0
  /\ trainer.optim.alpha = 0 /\ trainer.optim.actor = 3
  /\ trainer.actor # 0

\* C15: with cql_lagrange every training call makes exactly one optimizer
\* step on log_alpha_prime, ahead of the backward pass and the steps of the
\* critics; without it no training call steps log_alpha_prime, its value
\* stays at the initial one and the alpha_prime reported is 0.
C15_LagrangeStep ==
  [][ IsTrainStep =>
        LET ops == last'.ops
        IN /\ trainer.cql_lagrange =>
                /\ Count(ops, "alpha_prime_step") = 1
                /\ Count(ops, "alpha_prime_backward") = 1
                /\ Pos(ops, "alpha_prime_backward") < Pos(ops, "alpha_prime_step")
                /\ Pos(ops, "alpha_prime_step") < Pos(ops, "critic_backward")
                /\ Pos(ops, "alpha_prime_step") < Pos(ops, "critic_1_step")
                /\ Pos(ops, "alpha_prime_step") < Pos(ops, "critic_2_step")
                /\ trainer'.optim.alpha_prime = trainer.optim.alpha_prime + 1
                \* the Scalar stepped is the one alpha_prime is computed from
                /\ ~hist'.reloaded => trainer.log_alpha_prime = "prime0"
           /\ ~trainer.cql_lagrange =>
                /\ Count(ops, "alpha_prime_step") = 0
                /\ Count(ops, "alpha_prime_backward") = 0
                /\ trainer'.optim.alpha_prime = trainer.optim.alpha_prime
                /\ trainer'.log_alpha_prime = trainer.log_alpha_prime
                /\ trainer'.heap["prime0"] = trainer.heap["prime0"]
                /\ trainer'.heap["prime1"] = trainer.heap["prime1"]
                /\ trainer'.heap[trainer'.log_alpha_prime]
                      = NewTrainer(TRUE, FALSE, 0, 1).heap["prime0"]
                /\ last'.alpha_prime = 0 ]_vars

\* C15 witness: the second call of a Lagrange run; both calls stepped
\* log_alpha_prime, which left its initial value.
C15_Witness ==
  /\ trainer.cql_lagrange /\ last.op \in TrainOps
  /\ hist.n_calls = 2 /\ trainer.optim.alpha_prime = 2
  /\ Count(last.ops, "alpha_prime_step") = 1
  /\ trainer.heap["prime0"] # 1
  /\ last.alpha_prime > 0

\* C17 as claimed: the peer policy is consulted only by training calls in
\* the Q regime, and no training call changes the peer's state: its
\* parameters stay as they were and no backward pass of this trainer
\* reaches the gradient buffers of its parameters.
C17_PeerUntouched_Claimed ==
  /\ (last.op \in TrainOps /\ last.regime = "bc") => "server_agent" \notin last.reads
  /\ (last.op = "train_ori") => "server_agent" \notin last.reads
  /\ peer.actor = 1
  /\ ~peer.grad

\* C18 as claimed: state_dict succeeds for every configuration and the
\* checkpoint holds the trainer's entries; load_state_dict of a checkpoint
\* succeeds and leaves every entry, the step counter included, at the saved
\* value.
C18_RoundTrip_Claimed ==
  /\ last.op = "state_dict" =>
        (last.outcome = "ok" /\ ckpt = <<state_dict(trainer)>>)
  /\ last.op = "load_state_dict" =>
        (last.outcome = "ok" /\ state_dict(trainer) = ckpt[1])

\* C22 as claimed: after load_state_dict the Scalar alpha is computed from
\* is the parameter alpha_optimizer holds ("alpha0", the one it was built
\* on) and the Scalar alpha_prime is computed from is the parameter
\* alpha_prime_optimizer holds ("prime0"), so that an optimizer step of a
\* later training call moves the value the next call's loss uses.
C22_ScalarsPaired_Claimed ==
  /\ trainer.use_automatic_entropy_tuning => trainer.log_alpha = "alpha0"
  /\ trainer.log_alpha_prime = "prime0"

\* an operation of a training call other than the gradient clipping
NotClip(name) == name # "clip_grad_norm"

\* C21: train and train_ori, run side by side on the same calls with the
\* same configuration, have the same step counter after every call, are in
\* the same regime in every call, make the same optimizer steps in the same
\* order and sync the targets in the same calls; they differ in the peer
\* term of the actor loss and in the clipping of the actor gradient.
C21_SameStateMachine ==
  [][ IsTrainStep =>
        /\ last'.op = "train" /\ twin'.last.op = "train_ori"
        /\ trainer'.total_it = twin'.self.total_it
        /\ trainer'.total_it = hist'.n_calls
        /\ last'.t = twin'.last.t
        /\ last'.regime = twin'.last.regime
        /\ last'.synced = twin'.last.synced
        /\ SelectSeq(last'.ops, NotClip) = twin'.last.ops
        /\ Count(last'.ops, "clip_grad_norm") = 1
        /\ Count(twin'.last.ops, "clip_grad_norm") = 0
        /\ trainer'.optim = twin'.self.optim
        /\ last'.reads \ {"server_agent"} = twin'.last.reads
        /\ "server_agent" \notin twin'.last.reads
        /\ \A f \in {"bc_steps", "target_update_period", "use_automatic_entropy_tuning",
                      "cql_lagrange"} : trainer'[f] = twin'.self[f] ]_vars

\* C21 witness: after three calls both trainers are in the Q regime with
\* counter 3 and have just synced, while their actor losses differ.
C21_Witness ==
  /\ hist.n_calls = 3 /\ trainer.total_it = 3 /\ twin.self.total_it = 3
  /\ last.op = "train" /\ twin.last.op = "train_ori"
  /\ last.regime = "q" /\ twin.last.regime = "q"
  /\ last.synced /\ twin.last.synced
  /\ trainer.bc_steps = 1
  /\ last.policy_loss # twin.last.policy_loss

\* ------------------------------------------------ critic-loss properties

\* C16: one update_target_network(tau) sets each target critic to
\* (1 - tau) old_target + tau source (to the last thousandth), from its own
\* critic's current value and its own value before the call: the midpoint
\* for tau = 0.5, the old target for tau = 0, the source for tau = 1; the
\* critics themselves, and everything else, stay as they were.
C16_SoftUpdate ==
  [][ last'.op = "update_target_network" =>
        LET tau == last'.tau
            Blend(new, old, src) ==
              /\ 1000 * new <= (1000 - tau) * old + tau * src
              /\ (1000 - tau) * old + tau * src < 1000 * new + 1000
              /\ tau = 0 => new = old
              /\ tau = 1000 => new = src
              /\ tau = 500 => (2 * new <= old + src /\ old + src < 2 * new + 2)
        IN /\ Blend(trainer'.target_critic_1, trainer.target_critic_1, trainer.critic_1)
           /\ Blend(trainer'.target_critic_2, trainer.target_critic_2, trainer.critic_2)
           /\ trainer'.critic_1 = trainer.critic_1
           /\ trainer'.critic_2 = trainer.critic_2
           /\ SameExcept(trainer', trainer, {"target_critic_1", "target_critic_2"}) ]_vars

\* C16 witness: one sync with tau = 0.5 put target 1 midway between 0 and
\* critic 1 = 2 and target 2 midway between 1 and critic 2 = -1.
C16_Witness ==
  /\ last.op = "update_target_network" /\ last.tau = 500 /\ hist.n_syncs = 1
  /\ trainer.critic_1 = 2000 /\ trainer.target_critic_1 = 1000
  /\ trainer.critic_2 = -1000 /\ trainer.target_critic_2 = 0

\* both target critics shifted by d
ShiftTargets(self, d) == [self EXCEPT !.target_critic_1 = @ + d, !.target_critic_2 = @ + d]

\* C19: the TD target is r + (1 - done) discount v, v the smaller of the two
\* target critics at the next observation and a policy action there, less
\* alpha next_log_pi under backup_entropy.  It does not move with the online
\* critics and moves with the target critics; for done = 1 it is the reward;
\* both critics are regressed to it.
C19_TdTarget ==
  [][ last'.op = "_q_loss" =>
        LET b == last'.batch
            d == last'.draw
            a == last'.alpha
            y == last'.td_target
            next == actor_forward(trainer.actor, b.next_observations, d.eps_next)
            v == TorchMin(Q(trainer.target_critic_1, b.next_observations, next.actions),
                          Q(trainer.target_critic_2, b.next_observations, next.actions))
                   - (IF trainer.backup_entropy THEN MulMilli(a, next.log_probs) ELSE 0)
        IN /\ ~trainer.cql_max_target_backup =>
                y = b.rewards + (1 - b.dones) * MulMilli(trainer.discount, v)
           /\ b.dones = 1 => y = b.rewards
           /\ td_target(ShiftCritics(trainer, 1000), b, a, d) = y
           /\ td_target(ShiftTargets(trainer, 1000), b, a, d)
                 = y + (1 - b.dones) * trainer.discount
           /\ \E r \in { _q_loss(trainer, b, a, d) } :
                /\ r.td_target = y
                /\ r.grad_1 = Q(trainer.critic_1, b.observations, b.actions) - y
                /\ r.grad_2 = Q(trainer.critic_2, b.observations, b.actions) - y ]_vars

\* C19 witness: a row with done = 0 under backup_entropy, whose target is
\* not the reward, computed with target critics that differ from the critics.
C19_Witness ==
  /\ last.op = "_q_loss" /\ last.batch.dones = 0
  /\ trainer.backup_entropy /\ ~trainer.cql_max_target_backup
  /\ last.td_target # last.batch.rewards
  /\ trainer.target_critic_1 # trainer.critic_1
  /\ trainer.target_critic_2 # trainer.critic_2

\* the calls that compute the critic loss
QLossOps == {"_q_loss", "train", "train_ori"}

\* C20 as claimed: with and without importance sampling the log-sum-exp of
\* each critic runs over 3 cql_n_actions + 1 candidates.
C20_FourGroups_Claimed ==
  (last.op \in QLossOps) =>
     /\ Len(last.cql_cat_q1) = 3 * trainer.cql_n_actions + 1
     /\ Len(last.cql_cat_q2) = 3 * trainer.cql_n_actions + 1

\* the candidates of one critic: without importance sampling the random,
\* dataset, next-state and current-policy values; with it the random,
\* next-state and current-policy values, each less its log-density
CandidatesAsBuilt(self, theta, cat, b, d) ==
  LET n == self.cql_n_actions
      cur(j) == actor_forward(self.actor, b.observations, d.eps_cur[j])
      nxt(j) == actor_forward(self.actor, b.next_observations, d.eps_cnext[j])
  IN IF self.cql_importance_sample
     THEN /\ Len(cat) = 3 * n
          /\ \A j \in 1..n :
               /\ cat[j] = Q(theta, b.observations, d.rand[j]) + 693
               /\ cat[n + j] = Q(theta, b.observations, nxt(j).actions) - nxt(j).log_probs
               /\ cat[2 * n + j] = Q(theta, b.observations, cur(j).actions) - cur(j).log_probs
     ELSE /\ Len(cat) = 3 * n + 1
          /\ cat[n + 1] = Q(theta, b.observations, b.actions)
          /\ \A j \in 1..n :
               /\ cat[j] = Q(theta, b.observations, d.rand[j])
               /\ cat[n + 1 + j] = Q(theta, b.observations, nxt(j).actions)
               /\ cat[2 * n + 1 + j] = Q(theta, b.observations, cur(j).actions)

\* C20 amended: without importance sampling the log-sum-exp of each critic
\* runs over four groups, 3 cql_n_actions + 1 candidates, the value at the
\* dataset action among them; with importance sampling it runs over three
\* groups, 3 cql_n_actions candidates (random, next-state and current-policy
\* values, each less its log-density), without the value at the dataset
\* action.
C20_CandidateGroups ==
  [][ last'.op = "_q_loss" =>
        /\ CandidatesAsBuilt(trainer, trainer.critic_1, last'.cql_cat_q1, last'.batch, last'.draw)
        /\ CandidatesAsBuilt(trainer, trainer.critic_2, last'.cql_cat_q2, last'.batch, last'.draw) ]_vars

\* C20 witness: a critic loss under importance sampling with two candidates
\* per group, six in all.
C20_Witness ==
  /\ last.op = "_q_loss" /\ trainer.cql_importance_sample
  /\ trainer.cql_n_actions = 2
  /\ Len(last.cql_cat_q1) = 6 /\ Len(last.cql_cat_q2) = 6

====
